---- MODULE Spec2Model ----
(***************************************************************************)
(* Vulnerability match store of the sentinel service                       *)
(* (enterprise/internal/codeintel/sentinel/internal/store/matches.go):     *)
(* ScanMatches, the version constraint evaluator, and the two match        *)
(* queries with their row reconstruction.                                  *)
(*                                                                         *)
(* Strings are sequences of one-character strings, so that LIKE matching,  *)
(* strings.Join and version parsing are computed character by character.   *)
(***************************************************************************)
EXTENDS Integers, Sequences, FiniteSets, TLC

VARIABLES
    refs,       \* lsif_references: the package references of the uploads
    cat,        \* vulnerability_affected_packages: the catalog
    matches,    \* vulnerability_matches: the committed rows
    seq,        \* the id sequence of vulnerability_matches
    sc,         \* per ScanMatches caller: position, transaction-local data, result
    resp,       \* what the last match query returned
    snapshots,  \* history: every committed content vulnerability_matches has had
    lastOK,     \* history: the input read by the last scan that committed
    expected,   \* history: the pairs the committed scans' inputs call for
    nEnv,       \* number of changes made to refs and cat by their owners
    nScans,     \* number of ScanMatches calls started
    evalIn,     \* arguments of versionMatchesConstraints: [version, constraints]
    evalOut,    \* its result [matches, valid], or NoResult before the call
    rowsIn,     \* a row stream handed to scanVulnerabilityMatchesAndCount
    flatOut     \* what it returned for rowsIn

vars == <<refs, cat, matches, seq, sc, resp, snapshots, lastOK, expected,
          nEnv, nScans, evalIn, evalOut, rowsIn, flatOut>>

(***************************************************************************)
(* Character-level helpers.                                                *)
(***************************************************************************)
DigitSeq == <<"0", "1", "2", "3", "4", "5", "6", "7", "8", "9">>

Digits == {DigitSeq[i] : i \in 1..Len(DigitSeq)}

Letters == {"a", "b", "c", "f", "g", "r", "v", "x"}

OpChars == {"=", "!", ">", "<", "~"}

DigitVal(c) == (CHOOSE i \in 1..Len(DigitSeq) : DigitSeq[i] = c) - 1

RECURSIVE ParseUint(_)
ParseUint(s) ==
    IF s = <<>> THEN 0
    ELSE 10 * ParseUint(SubSeq(s, 1, Len(s) - 1)) + DigitVal(s[Len(s)])

IndexOf(s, c) ==
    IF \E i \in 1..Len(s) : s[i] = c
    THEN CHOOSE i \in 1..Len(s) : s[i] = c /\ \A j \in 1..(i - 1) : s[j] # c
    ELSE 0

\* strings.Split(s, sep) for a one-character separator
RECURSIVE StringsSplit(_, _)
StringsSplit(s, sep) ==
    LET i == IndexOf(s, sep)
    IN  IF i = 0 THEN <<s>>
        ELSE <<SubSeq(s, 1, i - 1)>> \o StringsSplit(SubSeq(s, i + 1, Len(s)), sep)

\* strings.Join(elems, sep)
RECURSIVE StringsJoin(_, _)
StringsJoin(elems, sep) ==
    IF elems = <<>> THEN <<>>
    ELSE IF Len(elems) = 1 THEN elems[1]
    ELSE elems[1] \o sep \o StringsJoin(Tail(elems), sep)

RECURSIVE TrimLeft(_)
TrimLeft(s) == IF s # <<>> /\ Head(s) = " " THEN TrimLeft(Tail(s)) ELSE s

RECURSIVE TrimRight(_)
TrimRight(s) ==
    IF s # <<>> /\ s[Len(s)] = " " THEN TrimRight(SubSeq(s, 1, Len(s) - 1)) ELSE s

TrimSpace(s) == TrimLeft(TrimRight(s))

(***************************************************************************)
(* The go-version library as versionMatchesConstraints uses it.            *)
(* A version is v?DIGITS(.DIGITS)* with an optional -PRERELEASE; fewer     *)
(* than three segments are padded with zeros.                              *)
(***************************************************************************)
BadVersion == [err |-> TRUE, segments |-> <<>>, pre |-> <<>>]

NewVersion(versionString) ==
    LET body  == IF versionString # <<>> /\ Head(versionString) = "v"
                 THEN Tail(versionString) ELSE versionString
        dash  == IndexOf(body, "-")
        core  == IF dash = 0 THEN body ELSE SubSeq(body, 1, dash - 1)
        pre   == IF dash = 0 THEN <<>> ELSE SubSeq(body, dash + 1, Len(body))
        parts == StringsSplit(core, ".")
        okCore == \A i \in 1..Len(parts) :
                     /\ parts[i] # <<>>
                     /\ \A j \in 1..Len(parts[i]) : parts[i][j] \in Digits
        okPre == \/ dash = 0
                 \/ /\ pre # <<>>
                    /\ \A j \in 1..Len(pre) : pre[j] \in Digits \cup Letters
        n     == IF Len(parts) < 3 THEN 3 ELSE Len(parts)
    IN  IF okCore /\ okPre
        THEN [err |-> FALSE,
              segments |-> [i \in 1..n |->
                              IF i <= Len(parts) THEN ParseUint(parts[i]) ELSE 0],
              pre |-> pre]
        ELSE BadVersion

SegAt(v, i) == IF i <= Len(v.segments) THEN v.segments[i] ELSE 0

\* Version.Compare: -1, 0 or 1; a pre-release sorts before its release
Compare(v, c) ==
    LET n == IF Len(v.segments) > Len(c.segments)
             THEN Len(v.segments) ELSE Len(c.segments)
        diff == {i \in 1..n : SegAt(v, i) # SegAt(c, i)}
    IN  IF diff # {}
        THEN LET k == CHOOSE i \in diff : \A j \in diff : i <= j
             IN  IF SegAt(v, k) < SegAt(c, k) THEN -1 ELSE 1
        ELSE IF v.pre = c.pre THEN 0
        ELSE IF v.pre = <<>> THEN 1
        ELSE IF c.pre = <<>> THEN -1
        ELSE IF Len(v.pre) < Len(c.pre) THEN -1 ELSE 1

\* a constraint without a pre-release never matches a pre-release version
PrereleaseCheck(v, c) ==
    IF v.pre # <<>> /\ c.pre # <<>> THEN v.segments = c.segments
    ELSE v.pre = <<>>

ConstraintOps == {<<>>, <<"=">>, <<"!", "=">>, <<">">>, <<"<">>,
                  <<">", "=">>, <<"<", "=">>}

RECURSIVE OpPrefixLen(_)
OpPrefixLen(s) ==
    IF s # <<>> /\ Head(s) \in OpChars THEN 1 + OpPrefixLen(Tail(s)) ELSE 0

\* parseSingle: \s*(operator)\s*(version)\s*
ParseSingle(v) ==
    LET t   == TrimSpace(v)
        k   == OpPrefixLen(t)
        op  == SubSeq(t, 1, k)
        ver == NewVersion(TrimLeft(SubSeq(t, k + 1, Len(t))))
    IN  [err |-> op \notin ConstraintOps \/ ver.err, op |-> op, check |-> ver]

ConstraintCheck(c, v) ==
    LET cmp == Compare(v, c.check)
    IN  CASE c.op = <<>>           -> cmp = 0
          [] c.op = <<"=">>        -> cmp = 0
          [] c.op = <<"!", "=">>   -> cmp # 0
          [] c.op = <<">">>        -> PrereleaseCheck(v, c.check) /\ cmp = 1
          [] c.op = <<"<">>        -> PrereleaseCheck(v, c.check) /\ cmp = -1
          [] c.op = <<">", "=">>   -> PrereleaseCheck(v, c.check) /\ cmp >= 0
          [] c.op = <<"<", "=">>   -> PrereleaseCheck(v, c.check) /\ cmp <= 0
          [] OTHER                 -> FALSE

\* version.NewConstraint: every comma-separated part must parse
NewConstraint(v) ==
    LET vs == StringsSplit(v, ",")
        cs == [i \in 1..Len(vs) |-> ParseSingle(vs[i])]
    IN  [err |-> \E i \in 1..Len(cs) : cs[i].err, list |-> cs]

\* Constraints.Check: the version passes every constraint
Check(constraint, v) ==
    \A i \in 1..Len(constraint.list) : ConstraintCheck(constraint.list[i], v)

(***************************************************************************)
(* versionMatchesConstraints (matches.go 259-271).                         *)
(***************************************************************************)
\* mutant: only the first constraint of the list is parsed and checked
versionMatchesFirstConstraint(versionString, constraints) ==
    LET v == NewVersion(versionString)
        c == NewConstraint(IF constraints = <<>> THEN <<>> ELSE constraints[1])
    IN  IF v.err \/ c.err
        THEN [matches |-> FALSE, valid |-> FALSE]
        ELSE [matches |-> Check(c, v), valid |-> TRUE]

versionMatchesConstraints(versionString, constraints) ==
    LET v == NewVersion(versionString)
    IN  IF v.err
        THEN [matches |-> FALSE, valid |-> FALSE]
        ELSE LET constraint == NewConstraint(StringsJoin(constraints, <<",">>))
             IN  IF constraint.err
                 THEN [matches |-> FALSE, valid |-> FALSE]
                 ELSE [matches |-> Check(constraint, v), valid |-> TRUE]

(***************************************************************************)
(* Evaluator inputs.                                                       *)
(***************************************************************************)
V123  == <<"1", ".", "2", ".", "3">>
V200  == <<"2", ".", "0", ".", "0">>
V140  == <<"1", ".", "4", ".", "0">>
Vabc  == <<"a", "b", "c">>
Vv10  == <<"v", "1", ".", "0">>
V12rc == <<"1", ".", "2", ".", "0", "-", "r", "c">>
V1x   == <<"1", ".", "x">>

Ge100 == <<">", "=", "1", ".", "0", ".", "0">>
Lt200 == <<"<", "2", ".", "0", ".", "0">>
Lt150 == <<"<", "1", ".", "5", ".", "0">>
Ne123 == <<"!", "=", "1", ".", "2", ".", "3">>
Eq200 == <<"=", " ", "2", ".", "0", ".", "0">>
BadOp == <<">", ">", "1">>
Range == Ge100 \o <<",", " ">> \o Lt200

EvalVersions == {V123, V200, V140, Vabc, Vv10, V12rc, V1x, <<>>}

EvalExprs == {Ge100, Lt200, Lt150, Ne123, Eq200, BadOp, Range, <<>>}

MaxConstraints == 2

RECURSIVE SeqsUpTo(_, _)
SeqsUpTo(S, n) ==
    IF n = 0 THEN {<<>>}
    ELSE LET shorter == SeqsUpTo(S, n - 1)
         IN  shorter \cup {Append(s, x) : s \in shorter, x \in S}


(***************************************************************************)
(* The tables ScanMatches reads.  A reference is a row of lsif_references, *)
(* a package a row of vulnerability_affected_packages, a symbol a row of   *)
(* vulnerability_affected_symbols.  Package names and symbol paths are     *)
(* never empty; fixed_in may be the empty string or NULL (<<>>).           *)
(***************************************************************************)
Nfbar  == <<"f", "/", "b", "a", "r">>
Nabbar == <<"a", "_", "b", "/", "b", "a", "r">>
Naxb   == <<"a", "x", "b">>
Pbar   == <<"b", "a", "r">>
Pa_b   == <<"a", "_", "b">>

R1 == [dump_id |-> 10, name |-> Nfbar,  version |-> V140, scheme |-> "gomod"]
R2 == [dump_id |-> 10, name |-> Nabbar, version |-> V123, scheme |-> "gomod"]
R3 == [dump_id |-> 11, name |-> Naxb,   version |-> V200, scheme |-> "npm"]
R4 == [dump_id |-> 12, name |-> Nfbar,  version |-> Vabc, scheme |-> "gomod"]
R5 == [dump_id |-> 13, name |-> Nfbar,  version |-> V200, scheme |-> "gomod"]
R6 == [dump_id |-> 14, name |-> Nfbar,  version |-> V140, scheme |-> "maven"]

RefSeq == <<R1, R2, R3, R4, R5, R6>>

RefUniverse == {RefSeq[i] : i \in 1..Len(RefSeq)}

P5 == [id |-> 5, vulnerability_id |-> 1, package_name |-> Pbar, language |-> "go",
       namespace |-> "github", version_constraint |-> <<Ge100, Lt150>>,
       fixed |-> TRUE, fixed_in |-> <<"1.5.0">>]
P6 == [id |-> 6, vulnerability_id |-> 2, package_name |-> Pa_b, language |-> "Javascript",
       namespace |-> "npmjs", version_constraint |-> <<Ge100>>,
       fixed |-> FALSE, fixed_in |-> <<"">>]
P7 == [id |-> 7, vulnerability_id |-> 1, package_name |-> Pbar, language |-> "go",
       namespace |-> "github", version_constraint |-> <<>>,
       fixed |-> FALSE, fixed_in |-> <<>>]

PkgSeq == <<P5, P6, P7>>

PkgUniverse == {PkgSeq[i] : i \in 1..Len(PkgSeq)}

S1 == [id |-> 1, vulnerability_affected_package_id |-> 5, path |-> "a.go",
       symbols |-> <<"F", "G">>]
S2 == [id |-> 2, vulnerability_affected_package_id |-> 5, path |-> "b.go",
       symbols |-> <<"H">>]

SymSeq == <<S1, S2>>

(***************************************************************************)
(* scanMatchesQuery (matches.go 213-223) and the scheme mapping of         *)
(* ScanMatches (151-166).                                                  *)
(***************************************************************************)
scipSchemeToVulnerabilityLanguage == [gomod |-> "go", npm |-> "Javascript"]

\* the WHERE clause: (r.scheme = s AND vap.language = mapping[s]) OR ...
Mappings(r, vap) ==
    \E scheme \in DOMAIN scipSchemeToVulnerabilityLanguage :
        /\ r.scheme = scheme
        /\ vap.language = scipSchemeToVulnerabilityLanguage[scheme]

\* SQL LIKE: % is any run of characters, _ any one character, \ quotes the next
RECURSIVE Like(_, _)
Like(s, pattern) ==
    IF pattern = <<>> THEN s = <<>>
    ELSE IF Head(pattern) = "%"
         THEN Like(s, Tail(pattern)) \/ (s # <<>> /\ Like(Tail(s), pattern))
    ELSE IF Head(pattern) = "_"
         THEN s # <<>> /\ Like(Tail(s), Tail(pattern))
    ELSE IF Head(pattern) = "\\"
         THEN /\ Len(pattern) >= 2
              /\ s # <<>>
              /\ Head(s) = pattern[2]
              /\ Like(Tail(s), Tail(Tail(pattern)))
    ELSE s # <<>> /\ Head(s) = Head(pattern) /\ Like(Tail(s), Tail(pattern))

\* r.name LIKE '%' || vap.package_name || '%'
JoinOn(r, vap) == Like(r.name, <<"%">> \o vap.package_name \o <<"%">>)

\* the join condition for every reference and package, computed once
JoinTable ==
    [x \in RefUniverse \X PkgUniverse |-> JoinOn(x[1], x[2]) /\ Mappings(x[1], x[2])]

PairSeq ==
    [k \in 1..(Len(PkgSeq) * Len(RefSeq)) |->
        <<RefSeq[((k - 1) % Len(RefSeq)) + 1], PkgSeq[((k - 1) \div Len(RefSeq)) + 1]>>]

\* the rows of scanMatchesQuery over references R and packages C
scanMatchesQuery(R, C) ==
    LET Joined(x) == x[1] \in R /\ x[2] \in C /\ JoinTable[x]
        hits == SelectSeq(PairSeq, Joined)
    IN  [i \in 1..Len(hits) |->
            [dump_id |-> hits[i][1].dump_id, vap_id |-> hits[i][2].id,
             version |-> hits[i][1].version,
             version_constraint |-> hits[i][2].version_constraint]]

(***************************************************************************)
(* scanFilteredVulnerabilityMatches (matches.go 243-257): a row is kept    *)
(* when the evaluator says it matches; an invalid row is not an error.     *)
(***************************************************************************)
Pair(u, a) == [UploadID |-> u, VulnerabilityAffectedPackageID |-> a]

\* versionMatchesConstraints on the versions and constraint lists of the
\* tables, computed once
EvalTable ==
    [x \in {r.version : r \in RefUniverse}
           \X {p.version_constraint : p \in PkgUniverse} |->
        versionMatchesConstraints(x[1], x[2])]

\* mutant: an unparsable version or constraint fails the whole scan
scanFilteredFailInvalid(rows) ==
    LET Keep(row) == EvalTable[<<row.version, row.version_constraint>>].matches
        kept == SelectSeq(rows, Keep)
    IN  [err |-> \E i \in 1..Len(rows) :
                    ~EvalTable[<<rows[i].version, rows[i].version_constraint>>].valid,
         matches |-> [i \in 1..Len(kept) |-> Pair(kept[i].dump_id, kept[i].vap_id)]]

scanFilteredVulnerabilityMatches(rows) ==
    LET Keep(row) == EvalTable[<<row.version, row.version_constraint>>].matches
        kept == SelectSeq(rows, Keep)
    IN  [err |-> FALSE,
         matches |-> [i \in 1..Len(kept) |-> Pair(kept[i].dump_id, kept[i].vap_id)]]

(***************************************************************************)
(* The write path of ScanMatches (matches.go 176-208, 225-236).            *)
(* A row of vulnerability_matches is [id, upload_id,                       *)
(* vulnerability_affected_package_id]; the table is unique on the pair.    *)
(***************************************************************************)
MaxNumPostgresParameters == 4

NumColumns == 2

\* values the inserter holds before it writes them in one round trip
maxBatchSize == (MaxNumPostgresParameters \div NumColumns) * NumColumns

PairOf(row) == Pair(row.upload_id, row.vulnerability_affected_package_id)

PairsOf(table) == {PairOf(row) : row \in table}

PairsIn(s) == {s[i] : i \in 1..Len(s)}

\* the unique index on (upload_id, vulnerability_affected_package_id)
Conflicts(table, pr) == pr \in PairsOf(table)

NewRow(id, pr) ==
    [id |-> id, upload_id |-> pr.UploadID,
     vulnerability_affected_package_id |-> pr.VulnerabilityAffectedPackageID]

\* mutant: the inserter writes into vulnerability_matches itself, each round
\* trip on its own
RECURSIVE FlushIntoMatches(_, _, _, _)
FlushIntoMatches(chunk, temp, table, nextID) ==
    IF chunk = <<>> THEN [temp |-> temp, table |-> table, seq |-> nextID]
    ELSE IF Conflicts(table, Head(chunk))
         THEN FlushIntoMatches(Tail(chunk), temp, table, nextID)
    ELSE FlushIntoMatches(Tail(chunk), temp,
                          table \cup {NewRow(nextID + 1, Head(chunk))}, nextID + 1)

\* one round trip of the batch inserter: INSERT INTO
\* t_vulnerability_affected_packages, the transaction's temporary table
Flush(chunk, temp, table, nextID) ==
    [temp |-> temp \o chunk, table |-> table, seq |-> nextID]

\* INSERT INTO vulnerability_matches SELECT ... FROM the temporary table ON
\* CONFLICT DO NOTHING; done are the rows this statement has inserted so far
RECURSIVE InsertDoNothing(_, _, _, _)
InsertDoNothing(table, staged, nextID, done) ==
    IF staged = <<>> THEN [err |-> FALSE, rows |-> done, seq |-> nextID]
    ELSE IF Conflicts(table \cup done, Head(staged))
         THEN InsertDoNothing(table, Tail(staged), nextID, done)
    ELSE InsertDoNothing(table, Tail(staged), nextID + 1,
                         done \cup {NewRow(nextID + 1, Head(staged))})

\* mutant: no ON CONFLICT clause, a conflicting row fails the statement
scanMatchesUpdateNoOnConflict(table, staged, nextID) ==
    IF \/ \E i \in 1..Len(staged) : Conflicts(table, staged[i])
       \/ \E i, j \in 1..Len(staged) : i # j /\ staged[i] = staged[j]
    THEN [err |-> TRUE, rows |-> {}, seq |-> nextID]
    ELSE InsertDoNothing(table, staged, nextID, {})

\* mutant: conflicts go undetected, every staged row is inserted
scanMatchesUpdateInsertAll(table, staged, nextID) ==
    [err |-> FALSE,
     rows |-> {NewRow(nextID + i, staged[i]) : i \in 1..Len(staged)},
     seq |-> nextID + Len(staged)]

\* mutant: only the rows of the statement itself count as conflicts
scanMatchesUpdateIgnoreTable(table, staged, nextID) ==
    InsertDoNothing({}, staged, nextID, {})

\* INSERT INTO vulnerability_matches ... ON CONFLICT DO NOTHING (232-236)
scanMatchesUpdateQuery(table, staged, nextID) ==
    InsertDoNothing(table, staged, nextID, {})

\* mutant: a failed round trip of the batch inserter is not returned
stepErrDropInsert(step, failed) == failed /\ step # "insert"

\* the error ScanMatches carries after a step: every failed step is returned
\* (if err != nil { return err })
stepErr(step, failed) == failed

\* mutant: the insert replaces the content of the table by its own rows
InsertedReplacing(table, rows) == rows

\* vulnerability_matches once the rows of the INSERT (232-236) are in it: an
\* INSERT adds rows and touches no other
Inserted(table, rows) == table \cup rows

\* tx.Done(err): commit when err is nil, roll back otherwise; TRUE = committed
txDone(err, commitOK) == ~err /\ commitOK

(***************************************************************************)
(* The match queries (matches.go 31-43, 52-74).  A result row is           *)
(* [id, upload_id, vulnerability_id, package_name, language, namespace,    *)
(* version_constraint, fixed, fixed_in, path, symbols, count]; a column    *)
(* that may be NULL is <<>> for NULL and <<value>> otherwise.              *)
(***************************************************************************)
RECURSIVE SortByID(_)
SortByID(table) ==
    IF table = {} THEN <<>>
    ELSE LET m == CHOOSE x \in table : \A y \in table : x.id <= y.id
         IN  <<m>> \o SortByID(table \ {m})

RECURSIVE Concat(_)
Concat(ss) == IF ss = <<>> THEN <<>> ELSE Head(ss) \o Concat(Tail(ss))

Min(a, b) == IF a < b THEN a ELSE b

\* one result row: the match columns, the package columns (NULL when vap is
\* <<>>), the symbol columns (NULL when vas is <<>>) and the count
RawRow(m, vap, vas, count) ==
    [id |-> m.id, upload_id |-> m.upload_id, count |-> count,
     vulnerability_id |-> IF vap = <<>> THEN <<>> ELSE <<vap[1].vulnerability_id>>,
     package_name |-> IF vap = <<>> THEN <<>> ELSE <<vap[1].package_name>>,
     language |-> IF vap = <<>> THEN <<>> ELSE <<vap[1].language>>,
     namespace |-> IF vap = <<>> THEN <<>> ELSE <<vap[1].namespace>>,
     version_constraint |-> IF vap = <<>> THEN <<>> ELSE vap[1].version_constraint,
     fixed |-> IF vap = <<>> THEN <<>> ELSE <<vap[1].fixed>>,
     fixed_in |-> IF vap = <<>> THEN <<>> ELSE vap[1].fixed_in,
     path |-> IF vas = <<>> THEN <<>> ELSE <<vas[1].path>>,
     symbols |-> IF vas = <<>> THEN <<>> ELSE vas[1].symbols]

\* m LEFT JOIN vulnerability_affected_packages vap LEFT JOIN
\* vulnerability_affected_symbols vas, the symbols in the order of symOrder
JoinRows(m, C, symOrder, count) ==
    LET vaps == {p \in C : p.id = m.vulnerability_affected_package_id}
    IN  IF vaps = {} THEN <<RawRow(m, <<>>, <<>>, count)>>
        ELSE LET vap == CHOOSE p \in vaps : TRUE
                 Mine(x) == x.vulnerability_affected_package_id = vap.id
                 vass == SelectSeq(symOrder, Mine)
             IN  IF vass = <<>> THEN <<RawRow(m, <<vap>>, <<>>, count)>>
                 ELSE [i \in 1..Len(vass) |-> RawRow(m, <<vap>>, <<vass[i]>>, count)]

\* mutant: LIMIT and OFFSET are applied to the rows of the join
getVulnerabilityMatchesQueryLimitRows(table, C, limit, offset) ==
    LET all == SortByID(table)
        joined == Concat([i \in 1..Len(all) |-> JoinRows(all[i], C, SymSeq, Len(all))])
    IN  IF limit < 0 \/ offset < 0 THEN <<>>
        ELSE SubSeq(joined, offset + 1, Min(offset + limit, Len(joined)))

\* limited_matches: ORDER BY id LIMIT limit OFFSET offset, COUNT(*) OVER() the
\* number of rows of the table; then the joins, ORDER BY m.id, vap.id, vas.id
getVulnerabilityMatchesQuery(table, C, limit, offset) ==
    LET all == SortByID(table)
        limited == IF limit < 0 \/ offset < 0 THEN <<>>
                   ELSE SubSeq(all, offset + 1, Min(offset + limit, Len(all)))
    IN  Concat([i \in 1..Len(limited) |-> JoinRows(limited[i], C, SymSeq, Len(all))])

\* WHERE m.id = id, 0 AS count; no ORDER BY: the symbols come in symOrder
vulnerabilityMatchByIDQuery(table, C, id, symOrder) ==
    LET hit == SortByID({m \in table : m.id = id})
    IN  Concat([i \in 1..Len(hit) |-> JoinRows(hit[i], C, symOrder, 0)])

(***************************************************************************)
(* Reconstruction (matches.go 76-139).  A Go *string is <<>> for nil and   *)
(* <<value>> otherwise.                                                    *)
(***************************************************************************)
OrElse(column, zero) == IF column = <<>> THEN zero ELSE column[1]

ZeroPackage ==
    [PackageName |-> <<>>, Language |-> "", Namespace |-> "",
     VersionConstraint |-> <<>>, Fixed |-> FALSE, FixedIn |-> <<>>,
     AffectedSymbols |-> <<>>]

\* mutant: FixedIn points at fixedIn whatever its value
scanRowKeepEmptyFixedIn(row) ==
    LET fixedIn == OrElse(row.fixed_in, "")
        vas == [Path |-> OrElse(row.path, ""), Symbols |-> <<>>]
        vap == [PackageName |-> OrElse(row.package_name, <<>>),
                Language |-> OrElse(row.language, ""),
                Namespace |-> OrElse(row.namespace, ""),
                VersionConstraint |-> row.version_constraint,
                Fixed |-> OrElse(row.fixed, FALSE),
                FixedIn |-> <<fixedIn>>,
                AffectedSymbols |-> IF vas.Path # "" THEN <<vas>> ELSE <<>>]
    IN  [err |-> row.vulnerability_id = <<>>,
         count |-> row.count,
         match |-> [ID |-> row.id, UploadID |-> row.upload_id,
                    VulnerabilityID |-> OrElse(row.vulnerability_id, 0),
                    AffectedPackage |->
                        IF vap.PackageName # <<>> THEN vap ELSE ZeroPackage]]

\* the row scanner of scanVulnerabilityMatchesAndCount (97-133).  Scan fails
\* on a NULL vulnerability_id (its target is an int); pq.Array(vas.Symbols)
\* is handed the slice, not its address, so vas.Symbols stays nil.
scanRow(row) ==
    LET fixedIn == OrElse(row.fixed_in, "")
        vas == [Path |-> OrElse(row.path, ""), Symbols |-> <<>>]
        vap == [PackageName |-> OrElse(row.package_name, <<>>),
                Language |-> OrElse(row.language, ""),
                Namespace |-> OrElse(row.namespace, ""),
                VersionConstraint |-> row.version_constraint,
                Fixed |-> OrElse(row.fixed, FALSE),
                FixedIn |-> IF fixedIn # "" THEN <<fixedIn>> ELSE <<>>,
                AffectedSymbols |-> IF vas.Path # "" THEN <<vas>> ELSE <<>>]
    IN  [err |-> row.vulnerability_id = <<>>,
         count |-> row.count,
         match |-> [ID |-> row.id, UploadID |-> row.upload_id,
                    VulnerabilityID |-> OrElse(row.vulnerability_id, 0),
                    AffectedPackage |->
                        IF vap.PackageName # <<>> THEN vap ELSE ZeroPackage]]

\* one iteration of the loop of flattenMatches (78-91)
flattenStep(flattened, m) ==
    LET i == Len(flattened)
    IN  IF i = 0 \/ flattened[i].ID # m.ID
        THEN Append(flattened, m)
        ELSE IF flattened[i].AffectedPackage.PackageName = <<>>
             THEN [flattened EXCEPT ![i].AffectedPackage = m.AffectedPackage]
             ELSE [flattened EXCEPT ![i].AffectedPackage.AffectedSymbols =
                       @ \o m.AffectedPackage.AffectedSymbols]

RECURSIVE flattenFrom(_, _)
flattenFrom(flattened, ms) ==
    IF ms = <<>> THEN flattened
    ELSE flattenFrom(flattenStep(flattened, Head(ms)), Tail(ms))

\* mutant: a later row of a match replaces the symbols instead of adding to them
RECURSIVE flattenKeepLast(_)
flattenKeepLast(ms) ==
    IF ms = <<>> THEN <<>>
    ELSE LET rest == flattenKeepLast(SubSeq(ms, 1, Len(ms) - 1))
             m == ms[Len(ms)]
         IN  IF rest # <<>> /\ rest[Len(rest)].ID = m.ID
             THEN [rest EXCEPT ![Len(rest)] = m]
             ELSE Append(rest, m)

flattenMatches(ms) == flattenFrom(<<>>, ms)

QueryFailed == [matches |-> <<>>, totalCount |-> 0, err |-> TRUE]

\* the longest prefix of rows that scans without error
RECURSIVE GoodPrefix(_)
GoodPrefix(rows) ==
    IF rows = <<>> \/ scanRow(Head(rows)).err THEN <<>>
    ELSE <<Head(rows)>> \o GoodPrefix(Tail(rows))

\* mutant: on an error the matches of the rows read so far are returned with it
scanVulnerabilityMatchesKeepRead(rows, queryErr) ==
    LET read == GoodPrefix(rows)
    IN  [matches |-> flattenMatches([i \in 1..Len(read) |-> scanRow(read[i]).match]),
         totalCount |-> IF read = <<>> THEN 0 ELSE read[Len(read)].count,
         err |-> queryErr \/ Len(read) < Len(rows)]

\* NewSliceWithCountScanner around the row scanner, then flattenMatches
scanVulnerabilityMatchesAndCount(rows, queryErr) ==
    IF queryErr \/ \E i \in 1..Len(rows) : scanRow(rows[i]).err
    THEN QueryFailed
    ELSE [matches |-> flattenMatches([i \in 1..Len(rows) |-> scanRow(rows[i]).match]),
          totalCount |-> IF rows = <<>> THEN 0 ELSE rows[Len(rows)].count,
          err |-> FALSE]

ZeroMatch ==
    [ID |-> 0, UploadID |-> 0, VulnerabilityID |-> 0, AffectedPackage |-> ZeroPackage]

\* VulnerabilityMatchByID (19-29)
VulnerabilityMatchByID(table, C, id, symOrder, queryErr) ==
    LET got == scanVulnerabilityMatchesAndCount(
                   vulnerabilityMatchByIDQuery(table, C, id, symOrder), queryErr)
    IN  IF got.err \/ Len(got.matches) = 0
        THEN [match |-> ZeroMatch, found |-> FALSE, err |-> got.err]
        ELSE [match |-> got.matches[1], found |-> TRUE, err |-> FALSE]

\* GetVulnerabilityMatches (45-50); the database rejects a negative LIMIT or
\* OFFSET, which fails the query
GetVulnerabilityMatches(table, C, limit, offset, queryErr) ==
    scanVulnerabilityMatchesAndCount(
        getVulnerabilityMatchesQuery(table, C, limit, offset),
        queryErr \/ limit < 0 \/ offset < 0)

(***************************************************************************)
(* The store as a state machine.  Two callers run ScanMatches, each in a   *)
(* transaction of its own; the owners of the references and of the catalog *)
(* change their tables; readers run the two match queries.                 *)
(***************************************************************************)
Callers == {"a", "b"}

MaxScans == 2

MaxEnvChanges == 1

NoInput == [refs |-> {}, cat |-> {}, read |-> FALSE]

\* a caller outside ScanMatches.  pc: the next step; err: the error the call
\* carries; fault: the store failed (or the context was cancelled) in a step of
\* the call; in: the tables its query read; cands: the matches the query kept;
\* idx: the next one to hand to the inserter; batch: the inserter's buffer;
\* temp: the temporary table; rows: rows inserted and not yet committed;
\* ret: what the last call returned; conc: another call was running when
\* this one began
IdleScan ==
    [pc |-> "idle", err |-> FALSE, fault |-> FALSE, in |-> NoInput,
     cands |-> <<>>, idx |-> 1, batch |-> <<>>, temp |-> <<>>, rows |-> {},
     ret |-> "none", conc |-> FALSE]

\* the last answer a reader got; busy: a scan held uncommitted rows of
\* vulnerability_matches when the query ran; fault: the store failed the query
NoResp == [op |-> "none", limit |-> 0, offset |-> 0, id |-> 0,
           matches |-> <<>>, totalCount |-> 0, found |-> FALSE, err |-> FALSE,
           busy |-> FALSE, fault |-> FALSE]

Busy(scans) == \E p \in DOMAIN scans : scans[p].rows # {}

EvalIdle == [version |-> <<>>, constraints |-> <<>>]

NoFlat == [matches |-> <<>>, totalCount |-> 0, err |-> FALSE, called |-> FALSE]

NoResult == [matches |-> FALSE, valid |-> FALSE, called |-> FALSE]


StoreVars == <<refs, cat, matches, seq, sc, resp, snapshots, lastOK, expected,
               nEnv, nScans>>

Init ==
    /\ refs = RefUniverse \ {R6}
    /\ cat = PkgUniverse \ {P7}
    /\ matches = {}
    /\ seq = 0
    /\ sc = [p \in Callers |-> IdleScan]
    /\ resp = NoResp
    /\ snapshots = {{}}
    /\ lastOK = NoInput
    /\ expected = {}
    /\ nEnv = 0
    /\ nScans = 0
    /\ evalIn = EvalIdle
    /\ evalOut = NoResult
    /\ rowsIn = <<>>
    /\ flatOut = NoFlat

Failed(s, step) == [s EXCEPT !.pc = "done", !.err = TRUE]

\* s.db.Transact (145-148): without a transaction the call returns at once
Begin(p) ==
    /\ sc[p].pc = "idle"
    /\ nScans < MaxScans
    /\ nScans' = nScans + 1
    /\ \E ok \in BOOLEAN :
          sc' = [sc EXCEPT ![p] =
                    IF stepErr("transact", ~ok)
                    THEN [IdleScan EXCEPT !.ret = "err", !.fault = TRUE]
                    ELSE [IdleScan EXCEPT !.pc = "query",
                                          !.conc = \E q \in Callers \ {p} :
                                                       sc[q].pc # "idle"]]
    /\ UNCHANGED <<refs, cat, matches, seq, resp, snapshots, lastOK, expected, nEnv,
                   evalIn, evalOut, rowsIn, flatOut>>

\* tx.Query(scanMatchesQuery) through scanFilteredVulnerabilityMatches (168-174)
Query(p) ==
    /\ sc[p].pc = "query"
    /\ \E ok \in BOOLEAN :
          LET got == scanFilteredVulnerabilityMatches(scanMatchesQuery(refs, cat))
              s == [sc[p] EXCEPT !.fault = ~ok,
                                 !.in = IF ok
                                        THEN [refs |-> refs, cat |-> cat, read |-> TRUE]
                                        ELSE NoInput]
          IN  sc' = [sc EXCEPT ![p] =
                        IF stepErr("query", ~ok \/ got.err)
                        THEN Failed(s, "query")
                        ELSE [s EXCEPT !.pc = "temp",
                                       !.cands = IF ok THEN got.matches ELSE <<>>]]
    /\ UNCHANGED <<refs, cat, matches, seq, resp, snapshots, lastOK, expected, nEnv,
                   nScans, evalIn, evalOut, rowsIn, flatOut>>

\* tx.Exec(scanMatchesTemporaryTableQuery) (176-178)
CreateTemp(p) ==
    /\ sc[p].pc = "temp"
    /\ \E ok \in BOOLEAN :
          LET s == [sc[p] EXCEPT !.fault = ~ok]
          IN  sc' = [sc EXCEPT ![p] =
                        IF stepErr("temp", ~ok)
                        THEN Failed(s, "temp")
                        ELSE [s EXCEPT !.pc = "insert", !.temp = <<>>, !.idx = 1]]
    /\ UNCHANGED <<refs, cat, matches, seq, resp, snapshots, lastOK, expected, nEnv,
                   nScans, evalIn, evalOut, rowsIn, flatOut>>

\* one inserter.Insert of the loop (190-198): the values join the buffer, and a
\* full buffer is written out
Insert(p) ==
    /\ sc[p].pc = "insert"
    /\ sc[p].idx <= Len(sc[p].cands)
    /\ LET b == Append(sc[p].batch, sc[p].cands[sc[p].idx])
           full == Len(b) * NumColumns >= maxBatchSize
           out == Flush(b, sc[p].temp, matches, seq)
       IN  \E ok \in IF full THEN BOOLEAN ELSE {TRUE} :
              /\ sc' = [sc EXCEPT ![p] =
                          IF ~full
                          THEN [@ EXCEPT !.batch = b, !.idx = @ + 1]
                          ELSE IF ok
                          THEN [@ EXCEPT !.batch = <<>>, !.temp = out.temp, !.idx = @ + 1]
                          ELSE IF stepErr("insert", TRUE)
                          THEN Failed([@ EXCEPT !.fault = TRUE, !.batch = <<>>], "insert")
                          ELSE [@ EXCEPT !.fault = TRUE, !.batch = <<>>, !.idx = @ + 1]]
              /\ matches' = IF full /\ ok THEN out.table ELSE matches
              /\ seq' = IF full /\ ok THEN out.seq ELSE seq
    /\ UNCHANGED <<refs, cat, resp, snapshots, lastOK, expected, nEnv,
                   nScans, evalIn, evalOut, rowsIn, flatOut>>

\* the inserter's last Flush when WithInserter returns (180-204)
FinalFlush(p) ==
    /\ sc[p].pc = "insert"
    /\ sc[p].idx > Len(sc[p].cands)
    /\ LET some == sc[p].batch # <<>>
           out == Flush(sc[p].batch, sc[p].temp, matches, seq)
       IN  \E ok \in IF some THEN BOOLEAN ELSE {TRUE} :
              /\ sc' = [sc EXCEPT ![p] =
                          IF ~some
                          THEN [@ EXCEPT !.pc = "update"]
                          ELSE IF ok
                          THEN [@ EXCEPT !.pc = "update", !.batch = <<>>, !.temp = out.temp]
                          ELSE IF stepErr("insert", TRUE)
                          THEN Failed([@ EXCEPT !.fault = TRUE, !.batch = <<>>], "insert")
                          ELSE [@ EXCEPT !.pc = "update", !.fault = TRUE, !.batch = <<>>]]
              /\ matches' = IF some /\ ok THEN out.table ELSE matches
              /\ seq' = IF some /\ ok THEN out.seq ELSE seq
    /\ UNCHANGED <<refs, cat, resp, snapshots, lastOK, expected, nEnv,
                   nScans, evalIn, evalOut, rowsIn, flatOut>>

\* tx.Exec(scanMatchesUpdateQuery) (206-208).  The statement waits while
\* another transaction holds an uncommitted row with one of its pairs.
Update(p) ==
    /\ sc[p].pc = "update"
    /\ \A q \in Callers \ {p} : PairsOf(sc[q].rows) \cap PairsIn(sc[p].temp) = {}
    /\ \E ok \in BOOLEAN :
          LET out == scanMatchesUpdateQuery(matches, sc[p].temp, seq)
              s == [sc[p] EXCEPT !.fault = @ \/ ~ok]
          IN  /\ sc' = [sc EXCEPT ![p] =
                          IF stepErr("update", ~ok \/ out.err)
                          THEN Failed(s, "update")
                          ELSE [s EXCEPT !.pc = "done",
                                         !.rows = IF ok THEN out.rows ELSE {}]]
              /\ seq' = IF ok /\ ~out.err THEN out.seq ELSE seq
    /\ UNCHANGED <<refs, cat, matches, resp, snapshots, lastOK, expected, nEnv,
                   nScans, evalIn, evalOut, rowsIn, flatOut>>

\* the deferred tx.Done(err) (149) and the return
Done(p) ==
    /\ sc[p].pc = "done"
    /\ \E ok \in IF sc[p].err THEN {TRUE} ELSE BOOLEAN :
          LET committed == txDone(sc[p].err, ok)
          IN  /\ sc' = [sc EXCEPT ![p] =
                          [IdleScan EXCEPT !.in = sc[p].in,
                                           !.cands = sc[p].cands,
                                           !.fault = sc[p].fault \/ ~ok,
                                           !.conc = sc[p].conc,
                                           !.ret = IF sc[p].err \/ ~committed
                                                   THEN "err" ELSE "nil"]]
              /\ matches' = IF committed THEN Inserted(matches, sc[p].rows) ELSE matches
              /\ snapshots' = IF committed
                              THEN snapshots \cup {Inserted(matches, sc[p].rows)}
                              ELSE snapshots
              /\ lastOK' = IF committed /\ ~sc[p].err THEN sc[p].in ELSE lastOK
              /\ expected' = IF committed /\ ~sc[p].err
                             THEN expected \cup PairsIn(sc[p].cands)
                             ELSE expected
    /\ UNCHANGED <<refs, cat, seq, resp, nEnv, nScans, evalIn, evalOut, rowsIn, flatOut>>

(***************************************************************************)
(* The owners of lsif_references and of the catalog change their tables.   *)
(***************************************************************************)
AddReference ==
    /\ nEnv < MaxEnvChanges
    /\ \E r \in RefUniverse \ refs : refs' = refs \cup {r}
    /\ nEnv' = nEnv + 1
    /\ UNCHANGED <<cat, matches, seq, sc, resp, snapshots, lastOK, expected,
                   nScans, evalIn, evalOut, rowsIn, flatOut>>

RemoveReference ==
    /\ nEnv < MaxEnvChanges
    /\ \E r \in refs : refs' = refs \ {r}
    /\ nEnv' = nEnv + 1
    /\ UNCHANGED <<cat, matches, seq, sc, resp, snapshots, lastOK, expected,
                   nScans, evalIn, evalOut, rowsIn, flatOut>>

AddPackage ==
    /\ nEnv < MaxEnvChanges
    /\ \E vap \in PkgUniverse \ cat : cat' = cat \cup {vap}
    /\ nEnv' = nEnv + 1
    /\ UNCHANGED <<refs, matches, seq, sc, resp, snapshots, lastOK, expected,
                   nScans, evalIn, evalOut, rowsIn, flatOut>>

RemovePackage ==
    /\ nEnv < MaxEnvChanges
    /\ \E vap \in cat : cat' = cat \ {vap}
    /\ nEnv' = nEnv + 1
    /\ UNCHANGED <<refs, matches, seq, sc, resp, snapshots, lastOK, expected,
                   nScans, evalIn, evalOut, rowsIn, flatOut>>

ScanStepOf(p) ==
    Begin(p) \/ Query(p) \/ CreateTemp(p) \/ Insert(p) \/ FinalFlush(p)
        \/ Update(p) \/ Done(p)

ScanStep == \E p \in Callers : ScanStepOf(p)

Next ==
    \/ ScanStep
    \/ AddReference
    \/ RemoveReference
    \/ AddPackage
    \/ RemovePackage

Spec == Init /\ [][Next]_vars

(***************************************************************************)
(* Readers: each match query is one statement over the committed rows of   *)
(* vulnerability_matches, run on the store's handle, not in a scan's       *)
(* transaction.                                                            *)
(***************************************************************************)
MaxLimit == 3

MaxOffset == 1

SymOrders == {SymSeq, <<S2, S1>>}

GetMatchByID ==
    /\ \E id \in 1..(seq + 1), symOrder \in SymOrders, ok \in BOOLEAN :
          LET got == VulnerabilityMatchByID(matches, cat, id, symOrder, ~ok)
          IN  resp' = [op |-> "byID", limit |-> 0, offset |-> 0, id |-> id,
                       matches |-> IF got.found THEN <<got.match>> ELSE <<>>,
                       totalCount |-> 0, found |-> got.found, err |-> got.err,
                       busy |-> Busy(sc), fault |-> ~ok]
    /\ UNCHANGED <<refs, cat, matches, seq, sc, snapshots, lastOK, expected, nEnv,
                   nScans, evalIn, evalOut, rowsIn, flatOut>>

ListMatches ==
    /\ \E limit \in -1..MaxLimit, offset \in -1..MaxOffset, ok \in BOOLEAN :
          LET got == GetVulnerabilityMatches(matches, cat, limit, offset, ~ok)
          IN  resp' = [op |-> "list", limit |-> limit, offset |-> offset, id |-> 0,
                       matches |-> got.matches, totalCount |-> got.totalCount,
                       found |-> FALSE, err |-> got.err, busy |-> Busy(sc),
                       fault |-> ~ok]
    /\ UNCHANGED <<refs, cat, matches, seq, sc, snapshots, lastOK, expected, nEnv,
                   nScans, evalIn, evalOut, rowsIn, flatOut>>

NextRead ==
    \/ ScanStep
    \/ GetMatchByID
    \/ ListMatches

SpecRead == Init /\ [][NextRead]_vars

(***************************************************************************)
(* One caller after the other: ScanMatches calls in sequence, the owners   *)
(* of the tables, and the readers.                                         *)
(***************************************************************************)
NextFrame ==
    \/ ScanStepOf("a")
    \/ AddReference
    \/ RemoveReference
    \/ AddPackage
    \/ RemovePackage
    \/ GetMatchByID
    \/ ListMatches

SpecFrame == Init /\ [][NextFrame]_vars

(***************************************************************************)
(* The readers on their own: any content of vulnerability_matches that     *)
(* scans can have left (the pairs (10,5) and (11,6) under any ids), and    *)
(* any catalog, entries of matched packages removed included.              *)
(***************************************************************************)
MaxID == 3

QueryRows ==
    {NewRow(i, pr) : i \in 1..MaxID, pr \in {Pair(10, 5), Pair(11, 6)}}

QueryTables ==
    {T \in SUBSET QueryRows :
        \A m1, m2 \in T :
            (m1.id = m2.id \/ PairOf(m1) = PairOf(m2)) => m1 = m2}

QueryInit ==
    /\ matches \in QueryTables
    /\ cat \in SUBSET PkgUniverse
    /\ seq = MaxID
    /\ refs = RefUniverse \ {R6}
    /\ sc = [p \in Callers |-> IdleScan]
    /\ resp = NoResp /\ snapshots = {matches} /\ lastOK = NoInput
    /\ expected = PairsOf(matches)
    /\ nEnv = 0 /\ nScans = 0
    /\ evalIn = EvalIdle /\ evalOut = NoResult
    /\ rowsIn = <<>> /\ flatOut = NoFlat

NextQuery ==
    \/ GetMatchByID
    \/ ListMatches

SpecQuery == QueryInit /\ [][NextQuery]_vars

(***************************************************************************)
(* Reconstruction on its own: any stream of result rows.                   *)
(***************************************************************************)
MaxRows == 3

M1 == [id |-> 1, upload_id |-> 10]
M2 == [id |-> 2, upload_id |-> 11]

FlatRows ==
    {RawRow(m, <<>>, <<>>, 2) : m \in {M1, M2}}
    \cup {RawRow(m, <<vap>>, vas, 2) :
             m \in {M1, M2}, vap \in PkgUniverse, vas \in {<<>>, <<S1>>, <<S2>>}}

FlatInit ==
    /\ rowsIn \in SeqsUpTo(FlatRows, MaxRows)
    /\ flatOut = NoFlat
    /\ refs = {} /\ cat = {} /\ matches = {} /\ seq = 0
    /\ sc = [p \in Callers |-> IdleScan]
    /\ resp = NoResp /\ snapshots = {{}} /\ lastOK = NoInput /\ expected = {}
    /\ nEnv = 0 /\ nScans = 0
    /\ evalIn = EvalIdle /\ evalOut = NoResult

Reconstruct ==
    /\ ~flatOut.called
    /\ flatOut' = scanVulnerabilityMatchesAndCount(rowsIn, FALSE) @@ [called |-> TRUE]
    /\ UNCHANGED <<StoreVars, evalIn, evalOut, rowsIn>>

SpecFlatten == FlatInit /\ [][Reconstruct]_vars

(***************************************************************************)
(* The evaluator on its own: any version against any constraint list.      *)
(***************************************************************************)
EvalInit ==
    /\ evalIn \in [version : EvalVersions,
                   constraints : SeqsUpTo(EvalExprs, MaxConstraints)]
    /\ evalOut = NoResult
    /\ refs = {} /\ cat = {} /\ matches = {} /\ seq = 0
    /\ sc = [p \in Callers |-> IdleScan]
    /\ resp = NoResp /\ snapshots = {{}} /\ lastOK = NoInput /\ expected = {}
    /\ nEnv = 0 /\ nScans = 0
    /\ rowsIn = <<>> /\ flatOut = NoFlat

Evaluate ==
    /\ ~evalOut.called
    /\ evalOut' = versionMatchesConstraints(evalIn.version, evalIn.constraints)
                      @@ [called |-> TRUE]
    /\ UNCHANGED <<StoreVars, evalIn, rowsIn, flatOut>>

SpecEval == EvalInit /\ [][Evaluate]_vars

(***************************************************************************)
(* What the properties are stated with, independent of the code's queries. *)
(***************************************************************************)
\* sub occurs in s as a run of consecutive characters
IsSubstring(sub, s) ==
    \E i \in 0..(Len(s) - Len(sub)) : SubSeq(s, i + 1, i + Len(sub)) = sub

\* the version satisfies one range expression
Satisfies(versionString, expr) ==
    LET v == NewVersion(versionString)
        c == NewConstraint(expr)
    IN  ~v.err /\ ~c.err /\ Check(c, v)

Unique(table) ==
    \A m1, m2 \in table : PairOf(m1) = PairOf(m2) => m1 = m2

HasDuplicate(s) == \E i, j \in 1..Len(s) : i # j /\ s[i] = s[j]

RowsWith(table, pr) == {m \in table : PairOf(m) = pr}

\* caller p has returned from a call
Returned(p) == sc[p].pc = "idle" /\ sc[p].ret # "none"

\* this step is the return of caller p from a call
Returns(p) == sc[p] # sc'[p] /\ sc'[p].pc = "idle"

(***************************************************************************)
(* Properties of ScanMatches.                                              *)
(***************************************************************************)
\* C1: in every reachable state vulnerability_matches holds at most one row
\* for each (upload_id, vulnerability_affected_package_id) pair, the rows a
\* transaction has not yet committed included; and a call whose surviving
\* candidates hold the same pair twice returns an error only when the store
\* failed it: the duplicate is absorbed.
C1_Uniqueness ==
    /\ Unique(matches)
    /\ \A p \in Callers : Unique(matches \cup sc[p].rows)
    /\ \A p \in Callers :
          (Returned(p) /\ HasDuplicate(sc[p].cands) /\ sc[p].ret = "err")
              => sc[p].fault

\* a call with a duplicated pair among its survivors returned nil, and each of
\* its pairs has exactly one row
C1_Witness ==
    \E p \in Callers :
        /\ Returned(p) /\ sc[p].ret = "nil" /\ ~sc[p].fault
        /\ HasDuplicate(sc[p].cands)
        /\ \A i \in 1..Len(sc[p].cands) :
              Cardinality(RowsWith(matches, sc[p].cands[i])) = 1

\* C2: a call that reads the same references and catalog as the last call
\* that completed successfully leaves vulnerability_matches identical (no row
\* added, changed or removed), and returns nil unless the store fails it.
C2_Idempotent ==
    [][\A p \in Callers :
          (Returns(p) /\ sc[p].pc = "done" /\ lastOK.read /\ sc[p].in = lastOK)
              => /\ matches' = matches
                 /\ ~sc'[p].fault => sc'[p].ret = "nil"]_vars

\* two calls, one after the other, read the same tables and both returned nil
C2_Witness ==
    /\ \A p \in Callers :
          Returned(p) /\ sc[p].ret = "nil" /\ ~sc[p].conc /\ sc[p].in = lastOK
    /\ lastOK.read
    /\ matches # {}

\* C3: vulnerability_matches changes only when a call commits, and then by
\* all the pairs the call kept; a call the store fails in any step (opening
\* the transaction, the candidate query, the temporary table, a round trip of
\* the inserter, the final insert, the commit) returns an error and leaves
\* the table as it was.
C3_AllOrNothing ==
    [][/\ matches' # matches
          => \E p \in Callers :
                /\ Returns(p) /\ sc'[p].ret = "nil"
                /\ matches' = matches \cup sc[p].rows
       /\ \A p \in Callers :
             Returns(p) =>
                /\ sc'[p].fault => (sc'[p].ret = "err" /\ matches' = matches)
                /\ sc'[p].ret = "err" => matches' = matches
                /\ sc'[p].ret = "nil" => PairsIn(sc'[p].cands) \subseteq PairsOf(matches')
      ]_vars

\* a call that had kept candidates was failed, returned an error, and none of
\* its pairs is in the table
C3_Witness ==
    \E p \in Callers :
        /\ Returned(p) /\ sc[p].ret = "err" /\ sc[p].fault
        /\ sc[p].cands # <<>>
        /\ PairsIn(sc[p].cands) \cap PairsOf(matches) = {}

\* C4: whatever the interleaving of the callers, a call returns an error only
\* when the store failed it, no pair has more than one row, and the table
\* holds exactly the pairs kept by the calls that returned nil: what those
\* calls would have produced one after the other.
C4_ConcurrentSafe ==
    /\ \A p \in Callers : sc[p].ret = "err" => sc[p].fault
    /\ Unique(matches)
    /\ PairsOf(matches) = expected

\* two overlapping calls both returned nil, and the pairs they both kept are
\* in the table once
C4_Witness ==
    /\ \A p \in Callers : Returned(p) /\ sc[p].ret = "nil" /\ sc[p].cands # <<>>
    /\ \E p \in Callers : sc[p].conc
    /\ \A p \in Callers : \A i \in 1..Len(sc[p].cands) :
          Cardinality(RowsWith(matches, sc[p].cands[i])) = 1

(***************************************************************************)
(* Properties of the readers next to ScanMatches.                          *)
(***************************************************************************)
\* the answer resp is what the reader's query returns on table T
AnswerOn(T) ==
    IF resp.op = "list"
    THEN LET got == GetVulnerabilityMatches(T, cat, resp.limit, resp.offset, FALSE)
         IN  ~got.err /\ resp.matches = got.matches
                 /\ resp.totalCount = got.totalCount
    ELSE \E symOrder \in SymOrders :
            LET got == VulnerabilityMatchByID(T, cat, resp.id, symOrder, FALSE)
            IN  ~got.err /\ resp.found = got.found
                    /\ resp.matches = (IF got.found THEN <<got.match>> ELSE <<>>)

\* C5: whatever a reader returns without error, next to ScanMatches
\* transactions in any stage, is the answer of its query on a committed state
\* of vulnerability_matches (the table before a scan or after its commit):
\* every match it returns is a committed row, never a row of a transaction
\* still open or rolled back.
C5_ReaderIsolation ==
    (resp.op # "none" /\ ~resp.err) =>
        /\ \E T \in snapshots : AnswerOn(T)
        /\ \A i \in 1..Len(resp.matches) :
              \E T \in snapshots : \E m \in T : m.id = resp.matches[i].ID

\* a list query ran while a scan held uncommitted rows and answered with the
\* empty table of before the scan
C5_Witness ==
    /\ resp.op = "list" /\ ~resp.err /\ resp.busy
    /\ resp.limit > 0 /\ resp.offset = 0
    /\ resp.matches = <<>> /\ resp.totalCount = 0

(***************************************************************************)
(* Which pairs ScanMatches persists.                                       *)
(***************************************************************************)
\* reference r and affected package vap match: the scheme is mapped to the
\* package's language, the package's name occurs in the reference's name, and
\* the reference's version satisfies every expression of the package
ShouldMatch(r, vap) ==
    /\ r.scheme \in DOMAIN scipSchemeToVulnerabilityLanguage
    /\ vap.language = scipSchemeToVulnerabilityLanguage[r.scheme]
    /\ IsSubstring(vap.package_name, r.name)
    /\ \A i \in 1..Len(vap.version_constraint) :
          Satisfies(r.version, vap.version_constraint[i])

\* C6: after a call that returned nil, every reference and affected package
\* of the tables it read that match (mapped scheme, the mapped language, the
\* name as a substring, every expression satisfied) have their row
\* (r.dump_id, vap.id) in vulnerability_matches.
C6_Complete ==
    \A p \in Callers :
        (Returned(p) /\ sc[p].ret = "nil") =>
            \A r \in sc[p].in.refs, vap \in sc[p].in.cat :
                ShouldMatch(r, vap) => Pair(r.dump_id, vap.id) \in PairsOf(matches)

\* C7: every row a call adds to vulnerability_matches has a witness in the
\* tables the call read: a reference of that upload and the affected package
\* of that id that match (mapped scheme, the mapped language, the name as a
\* substring, every expression satisfied).
C7_Sound ==
    [][\A p \in Callers :
          Returns(p) =>
             \A m \in matches' \ matches :
                \E r \in sc[p].in.refs, vap \in sc[p].in.cat :
                    /\ r.dump_id = m.upload_id
                    /\ vap.id = m.vulnerability_affected_package_id
                    /\ ShouldMatch(r, vap)]_vars

\* the candidates of the tables a call read
CandidatesOf(in) == scanMatchesQuery(in.refs, in.cat)

CandidateSet(in) == {CandidatesOf(in)[i] : i \in 1..Len(CandidatesOf(in))}

\* the candidate's version or its comma-joined constraint does not parse
Unparsable(row) ==
    \/ NewVersion(row.version).err
    \/ NewConstraint(StringsJoin(row.version_constraint, <<",">>)).err

AllSatisfied(row) ==
    \A i \in 1..Len(row.version_constraint) :
        Satisfies(row.version, row.version_constraint[i])

\* C9: a call whose candidates include unparsable ones returns nil unless the
\* store fails it; every row it adds comes from a candidate that parses and
\* matches, and every candidate that parses and matches has its row when the
\* call has returned nil.
C9_InvalidTolerated ==
    [][\A p \in Callers :
          (Returns(p) /\ sc[p].in.read
               /\ \E row \in CandidateSet(sc[p].in) : Unparsable(row))
          => /\ ~sc'[p].fault => sc'[p].ret = "nil"
             /\ \A m \in matches' \ matches :
                   \E row \in CandidateSet(sc[p].in) :
                       /\ Pair(row.dump_id, row.vap_id) = PairOf(m)
                       /\ ~Unparsable(row) /\ AllSatisfied(row)
             /\ sc'[p].ret = "nil" =>
                   \A row \in CandidateSet(sc[p].in) :
                       (~Unparsable(row) /\ AllSatisfied(row))
                           => Pair(row.dump_id, row.vap_id) \in PairsOf(matches')
      ]_vars

\* a call with an unparsable candidate returned nil: the candidates that
\* parse and match have their rows, the pair of the unparsable one has none
C9_Witness ==
    \E p \in Callers :
        /\ Returned(p) /\ sc[p].ret = "nil"
        /\ \E row \in CandidateSet(sc[p].in) :
              /\ Unparsable(row)
              /\ Pair(row.dump_id, row.vap_id) \notin PairsOf(matches)
        /\ \E row \in CandidateSet(sc[p].in) :
              /\ ~Unparsable(row) /\ AllSatisfied(row)
              /\ Pair(row.dump_id, row.vap_id) \in PairsOf(matches)

(***************************************************************************)
(* The evaluator.                                                          *)
(***************************************************************************)
\* C8: versionMatchesConstraints returns (false, false) when the version or
\* the comma-joined constraint does not parse; otherwise valid is true and
\* matches is true exactly when the version satisfies every constraint of the
\* list; matches is never true with valid false; 1.2.3 matches
\* [>=1.0.0, <2.0.0] and 2.0.0 does not.
C8_Evaluator ==
    evalOut.called =>
        LET versionOK == ~NewVersion(evalIn.version).err
            joinedOK ==
                ~NewConstraint(StringsJoin(evalIn.constraints, <<",">>)).err
            every == \A i \in 1..Len(evalIn.constraints) :
                        Satisfies(evalIn.version, evalIn.constraints[i])
        IN  /\ (~versionOK \/ ~joinedOK) => (~evalOut.matches /\ ~evalOut.valid)
            /\ (versionOK /\ joinedOK) => (evalOut.valid /\ (evalOut.matches <=> every))
            /\ evalOut.matches => evalOut.valid
            /\ (evalIn.version = V123 /\ evalIn.constraints = <<Ge100, Lt200>>)
                  => (evalOut.matches /\ evalOut.valid)
            /\ (evalIn.version = V200 /\ evalIn.constraints = <<Ge100, Lt200>>)
                  => (~evalOut.matches /\ evalOut.valid)

\* 2.0.0 against [>=1.0.0, <2.0.0]: valid, and no match because of the
\* second constraint alone
C8_Witness ==
    /\ evalOut.called
    /\ evalIn.version = V200 /\ evalIn.constraints = <<Ge100, Lt200>>
    /\ evalOut.valid /\ ~evalOut.matches
    /\ Satisfies(V200, Ge100) /\ ~Satisfies(V200, Lt200)

(***************************************************************************)
(* Reconstruction.                                                         *)
(***************************************************************************)
\* the rows at which the match id differs from the row before
Starts == {i \in 1..Len(rowsIn) : i = 1 \/ rowsIn[i].id # rowsIn[i - 1].id}

\* the j-th of them, and the last row of the run it starts
StartOf(j) == CHOOSE a \in Starts : Cardinality({t \in Starts : t < a}) = j - 1

EndOf(j) ==
    IF j = Cardinality(Starts) THEN Len(rowsIn) ELSE StartOf(j + 1) - 1

HasPath(row) == row.path # <<>>

\* the paths of the symbol rows among rows a..b, in row order
PathsIn(a, b) ==
    LET with == SelectSeq(SubSeq(rowsIn, a, b), HasPath)
    IN  [i \in 1..Len(with) |-> with[i].path[1]]

\* the rows of one match id are adjacent
Adjacent ==
    \A i, k \in 1..Len(rowsIn) :
        (i < k /\ rowsIn[i].id = rowsIn[k].id)
            => \A j \in i..k : rowsIn[j].id = rowsIn[i].id

\* C10: of a row stream that scans without error, reconstruction returns one
\* match for each run of rows with the same match id, a new match exactly
\* where the id differs from the row before; the match carries that id and
\* the symbols of its own rows, as many as its rows carry and in row order;
\* when the rows of a match id are adjacent, each id is returned once.
C10_FanOut ==
    (flatOut.called /\ ~flatOut.err) =>
        /\ Len(flatOut.matches) = Cardinality(Starts)
        /\ \A j \in 1..Len(flatOut.matches) :
              LET m == flatOut.matches[j]
                  syms == m.AffectedPackage.AffectedSymbols
              IN  /\ m.ID = rowsIn[StartOf(j)].id
                  /\ [i \in 1..Len(syms) |-> syms[i].Path]
                         = PathsIn(StartOf(j), EndOf(j))
        /\ Adjacent =>
              \A j, k \in 1..Len(flatOut.matches) :
                  flatOut.matches[j].ID = flatOut.matches[k].ID => j = k

\* two rows of match 1 with a symbol each, then a row of match 2: two
\* matches, the first with both symbols in row order
C10_Witness ==
    /\ flatOut.called /\ ~flatOut.err
    /\ Len(rowsIn) = 3
    /\ rowsIn[1].id = 1 /\ rowsIn[2].id = 1 /\ rowsIn[3].id = 2
    /\ rowsIn[1].path = <<"a.go">> /\ rowsIn[2].path = <<"b.go">>
    /\ Len(flatOut.matches) = 2
    /\ Len(flatOut.matches[1].AffectedPackage.AffectedSymbols) = 2
    /\ flatOut.matches[1].AffectedPackage.AffectedSymbols[1].Path = "a.go"
    /\ flatOut.matches[1].AffectedPackage.AffectedSymbols[2].Path = "b.go"

(***************************************************************************)
(* Properties of the match queries.                                        *)
(***************************************************************************)
\* C11: a list query that returns without error reports totalCount = N, the
\* number of rows of vulnerability_matches, whatever the limit and the
\* offset (a limit of 0 and an offset at or beyond N included); N counts
\* matches, not the rows of the join.
C11_CountStable ==
    (resp.op = "list" /\ ~resp.err) => resp.totalCount = Cardinality(matches)

Max(a, b) == IF a > b THEN a ELSE b

\* the number of rows of the table with a smaller id
RankBelow(table, id) == Cardinality({m \in table : m.id < id})

\* the number of rows the joins produce for match row m
FanOut(m) ==
    Max(1, Cardinality({i \in 1..Len(SymSeq) :
                \E vap \in cat :
                    /\ vap.id = m.vulnerability_affected_package_id
                    /\ SymSeq[i].vulnerability_affected_package_id = vap.id}))

\* C12: a list query that returns without error returns exactly
\* min(limit, max(0, N - offset)) matches of the N in the table: the j-th is
\* the row ranked offset + j by ascending id, so the ids are strictly
\* ascending and none is repeated, whatever the number of symbol rows a match
\* fans out to.
C12_PagesOverMatches ==
    (resp.op = "list" /\ ~resp.err) =>
        /\ Len(resp.matches)
              = Min(resp.limit, Max(0, Cardinality(matches) - resp.offset))
        /\ \A j \in 1..Len(resp.matches) :
              /\ \E m \in matches : m.id = resp.matches[j].ID
              /\ RankBelow(matches, resp.matches[j].ID) = resp.offset + j - 1
        /\ \A j, k \in 1..Len(resp.matches) :
              j < k => resp.matches[j].ID < resp.matches[k].ID

\* the page (limit 1, offset 1) of a table of two matches whose first fans
\* out to two rows: the second match alone
C12_Witness ==
    /\ resp.op = "list" /\ ~resp.err
    /\ resp.limit = 1 /\ resp.offset = 1
    /\ Cardinality(matches) = 2
    /\ \E m \in matches : RankBelow(matches, m.id) = 0 /\ FanOut(m) = 2
    /\ Len(resp.matches) = 1
    /\ RankBelow(matches, resp.matches[1].ID) = 1

\* C13: a lookup by id that the store does not fail returns a nil error;
\* found is true, with the match of that id, exactly when
\* vulnerability_matches has a row with that id, and otherwise found is false
\* with an empty match.
C13_FoundIffExists ==
    (resp.op = "byID" /\ ~resp.fault) =>
        /\ ~resp.err
        /\ resp.found <=> \E m \in matches : m.id = resp.id
        /\ resp.found =>
              \E m \in matches :
                  /\ m.id = resp.id
                  /\ resp.matches[1].ID = m.id
                  /\ resp.matches[1].UploadID = m.upload_id
        /\ ~resp.found => resp.matches = <<>>

\* the row of vulnerability_matches with this id
RowOf(id) == CHOOSE m \in matches : m.id = id

\* the catalog row match row m refers to
PackageOf(m) == CHOOSE vap \in cat : vap.id = m.vulnerability_affected_package_id

\* the rows of vulnerability_affected_symbols of package vap, by id
SymbolsOf(vap) ==
    LET Mine(x) == x.vulnerability_affected_package_id = vap.id
    IN  SelectSeq(SymSeq, Mine)

\* the package of the match carries the fields of catalog row vap
SamePackage(pkg, vap) ==
    /\ pkg.PackageName = vap.package_name
    /\ pkg.Language = vap.language
    /\ pkg.Namespace = vap.namespace
    /\ pkg.VersionConstraint = vap.version_constraint
    /\ pkg.Fixed = vap.fixed

\* C14: every match a query returns carries the upload_id of its row, the
\* vulnerability_id and the fields of the catalog row its package id refers
\* to, and for each symbol row of that package an entry with the same path
\* and the same list of symbol names.
C14_Lossless ==
    (resp.op # "none" /\ ~resp.err) =>
        \A j \in 1..Len(resp.matches) :
            LET mt == resp.matches[j]
                vap == PackageOf(RowOf(mt.ID))
                syms == mt.AffectedPackage.AffectedSymbols
            IN  /\ mt.UploadID = RowOf(mt.ID).upload_id
                /\ mt.VulnerabilityID = vap.vulnerability_id
                /\ SamePackage(mt.AffectedPackage, vap)
                /\ \A i \in 1..Len(SymbolsOf(vap)) :
                      \E k \in 1..Len(syms) :
                          /\ syms[k].Path = SymbolsOf(vap)[i].path
                          /\ syms[k].Symbols = SymbolsOf(vap)[i].symbols

\* C15: in every match reconstruction returns, the package's FixedIn is
\* absent when the fixed_in of the match's own catalog row is the empty
\* string or NULL, and is that row's value otherwise; it is never present
\* with the empty string, and never the value of another match's row.
C15_FixedInNormalised ==
    (flatOut.called /\ ~flatOut.err) =>
        \A j \in 1..Len(flatOut.matches) :
            LET fixedIn == flatOut.matches[j].AffectedPackage.FixedIn
                column == rowsIn[StartOf(j)].fixed_in
            IN  /\ fixedIn # <<"">>
                /\ (column = <<>> \/ column = <<"">>) => fixedIn = <<>>
                /\ (column # <<>> /\ column # <<"">>) => fixedIn = column

\* three matches in one stream: fixed_in "" then a value then NULL; the
\* first and the third come back without FixedIn, the second with its value
C15_Witness ==
    /\ flatOut.called /\ ~flatOut.err
    /\ Len(rowsIn) = 3 /\ Len(flatOut.matches) = 3
    /\ rowsIn[1].fixed_in = <<"">>
    /\ rowsIn[2].fixed_in = <<"1.5.0">>
    /\ rowsIn[3].fixed_in = <<>>
    /\ flatOut.matches[1].AffectedPackage.FixedIn = <<>>
    /\ flatOut.matches[2].AffectedPackage.FixedIn = <<"1.5.0">>
    /\ flatOut.matches[3].AffectedPackage.FixedIn = <<>>

(***************************************************************************)
(* What the operations leave alone.                                        *)
(***************************************************************************)
\* C16: across ScanMatches calls, the queries and changes of the references
\* and the catalog by their owners, a row of vulnerability_matches is never
\* deleted and its id, upload_id and package id never change; a step of
\* ScanMatches leaves the references and the catalog as they are, and a query
\* leaves every table as it is.
C16_AppendOnly ==
    [][/\ matches \subseteq matches'
       /\ \A m \in matches, n \in matches' : n.id = m.id => n = m
       /\ sc' # sc => (refs' = refs /\ cat' = cat)
       /\ resp' # resp =>
             (refs' = refs /\ cat' = cat /\ matches' = matches /\ seq' = seq)
      ]_vars

\* a scan returned nil after the reference or the catalog entry behind a row
\* was removed, and the row is still in the table
C16_Witness ==
    /\ Returned("a") /\ sc["a"].ret = "nil" /\ sc["a"].in.read
    /\ \E m \in matches :
          \/ \A r \in sc["a"].in.refs : r.dump_id # m.upload_id
          \/ \A vap \in sc["a"].in.cat :
                vap.id # m.vulnerability_affected_package_id
    /\ resp.op # "none"

(***************************************************************************)
(* Failures of the match queries.                                          *)
(***************************************************************************)
\* C17: a query the store fails, or called with a negative limit or offset,
\* returns an error; and whenever a query returns an error (the scan of a row
\* failing included) it returns no match, totalCount 0 and found false:
\* matches of the rows read before the failure are not returned.
C17_NoPartialData ==
    /\ (resp.op # "none" /\ (resp.fault \/ resp.limit < 0 \/ resp.offset < 0))
          => resp.err
    /\ resp.err => (resp.matches = <<>> /\ resp.totalCount = 0 /\ ~resp.found)

\* a list query over two matches failed in the scan of the second one's row,
\* after the first one's rows were read, and returned nothing
C17_Witness ==
    /\ resp.op = "list" /\ resp.err /\ ~resp.fault
    /\ resp.limit >= 2 /\ resp.offset = 0
    /\ \E m, n \in matches :
          /\ m.id < n.id
          /\ \E vap \in cat : vap.id = m.vulnerability_affected_package_id
          /\ \A vap \in cat : vap.id # n.vulnerability_affected_package_id
    /\ resp.matches = <<>> /\ resp.totalCount = 0

\* match mt is what its row calls for: with the catalog row of its package
\* and one entry, with a path, for each symbol row of that package (none when
\* there is none); with no package and no symbols when the catalog has no
\* such row
AsJoined(mt) ==
    LET m == RowOf(mt.ID)
        syms == mt.AffectedPackage.AffectedSymbols
    IN  IF \E vap \in cat : vap.id = m.vulnerability_affected_package_id
        THEN /\ SamePackage(mt.AffectedPackage, PackageOf(m))
             /\ Len(syms) = Len(SymbolsOf(PackageOf(m)))
             /\ \A k \in 1..Len(syms) :
                   /\ syms[k].Path # ""
                   /\ \E i \in 1..Len(syms) :
                         syms[k].Path = SymbolsOf(PackageOf(m))[i].path
        ELSE mt.AffectedPackage = ZeroPackage

\* C18: a query the store does not fail returns each match of the page (of
\* the id) as one match: with its package and an empty symbol list when the
\* package has no symbol rows, and with no package and no symbols when its
\* package id resolves to no catalog row; left-join misses fail nothing.
C18_LeftJoinMisses ==
    (resp.op # "none" /\ ~resp.fault /\ resp.limit >= 0 /\ resp.offset >= 0) =>
        /\ ~resp.err
        /\ resp.op = "byID" => (resp.found <=> \E m \in matches : m.id = resp.id)
        /\ resp.op = "list" =>
              Len(resp.matches)
                  = Min(resp.limit, Max(0, Cardinality(matches) - resp.offset))
        /\ \A j \in 1..Len(resp.matches) : AsJoined(resp.matches[j])

\* of two answers without error, one of VulnerabilityMatchByID and one of
\* GetVulnerabilityMatches: the match of the id asked for, where the page
\* holds it, is the match the by-id call returned
AgreeOn(byID, list) ==
    (byID.op = "byID" /\ byID.found /\ ~byID.err /\ list.op = "list" /\ ~list.err) =>
        \A j \in 1..Len(list.matches) :
            list.matches[j].ID = byID.id => list.matches[j] = byID.matches[1]

\* C19: on an unchanged store, a by-id call and a list call made one after
\* the other (in either order) return equal matches for an id the page
\* holds: same upload, vulnerability, package fields, and the same symbols
\* in the same order.
C19_EntryPointsAgree ==
    [][AgreeOn(resp, resp') /\ AgreeOn(resp', resp)]_vars

====
